---- MODULE Spec2Model ----
(***************************************************************************)
(* TaskFlow API (python/src): the tasks and users tables, the Task and     *)
(* User entity mappers, the task and user services and their routes.       *)
(*                                                                         *)
(* Conventions of the model                                                *)
(*   - a Python string is a sequence of pieces (one-character strings, or  *)
(*     whole lexical units such as "pending" where the code never looks    *)
(*     inside them); "" is << >>                                           *)
(*   - an optional value is a sequence of length <= 1: None / SQL NULL is  *)
(*     << >>, a present value v is << v >>                                 *)
(*   - a datetime object is [dt |-> tick]; a timestamp stored as TEXT is   *)
(*     [t |-> tick, fmt |-> "iso" | "sql"]: "iso" is what                  *)
(*     datetime.isoformat() writes (YYYY-MM-DDTHH:MM:SS), "sql" is what    *)
(*     the seed statements of init_db write (YYYY-MM-DD HH:MM:SS)          *)
(***************************************************************************)
EXTENDS Integers, Sequences, FiniteSets, TLC

VARIABLES
    tasks,      \* the tasks table: sequence of rows, row i has id i
    now,        \* the wall clock read by datetime.now()
    built,      \* the Task entity the last request handed to save()/delete()
    response,   \* what the last request returned to the route
    ops,        \* number of mutating task requests served so far
    users,      \* the users table: sequence of rows, row i has id i
    inflight,   \* create_user requests between construction and save()
    uresponse,  \* what the last user request returned to the route
    pw_user,    \* a User object's password_hash (credential helper)
    pw_plain,   \* the plaintext last given to set_password on it
    pw_check,   \* the last check_password call: candidate and result
    conns,      \* connections the last request opened, and how many it closed
    updating    \* update_task requests served by concurrent threads

vars == <<tasks, now, built, response, ops, users, inflight, uresponse,
          pw_user, pw_plain, pw_check, conns, updating>>

taskVars == <<tasks, now, built, response, ops, updating>>
userVars == <<users, inflight, uresponse>>
pwVars   == <<pw_user, pw_plain, pw_check>>
nonTaskVars == <<users, inflight, uresponse, pw_user, pw_plain, pw_check>>

----------------------------------------------------------------------------
(* Bounds of the model *)

MaxOps == 2          \* mutating task requests per behaviour
MaxTime == 1         \* last tick of the wall clock
MaxUserReqs == 2     \* create_user requests per behaviour
MaxPwLen == 2        \* longest plaintext password
TicksPerDay == 2     \* ticks that share one calendar date

(* Program constants *)

MaxTitleLen == 200   \* Task.validate
SeedTaskCount == 6   \* init_db
SeedUserCount == 3   \* init_db

----------------------------------------------------------------------------
(* Optional values and strings *)

None == << >>
Some(v) == << v >>
IsNone(o) == o = << >>
Val(o) == o[1]

\* Python truthiness of an optional string / optional object (None and ""
\* are falsy; datetime objects and non-zero ints are truthy).
TruthyStr(o) == o # None /\ Val(o) # << >>
TruthyInt(o) == o # None /\ Val(o) # 0

RECURSIVE LStrip(_)
LStrip(s) == IF s # << >> /\ Head(s) = " " THEN LStrip(Tail(s)) ELSE s

RECURSIVE RStrip(_)
RStrip(s) == IF s # << >> /\ s[Len(s)] = " " THEN RStrip(SubSeq(s, 1, Len(s) - 1)) ELSE s

\* str.strip()
Strip(s) == RStrip(LStrip(s))

\* "c in s" for a one-character c
Contains(s, c) == \E i \in 1..Len(s) : s[i] = c

----------------------------------------------------------------------------
(* Timestamps *)

IsDatetime(x) == DOMAIN x = {"dt"}

\* datetime.isoformat()
isoformat(d) == [t |-> d.dt, fmt |-> "iso"]

\* datetime.fromisoformat(): accepts both separators, yields the same object
fromisoformat(x) == [dt |-> x.t]

\* SQLite datetime('now') as written by the seed statements
sql_datetime(tick) == [t |-> tick, fmt |-> "sql"]

\* BINARY collation on two timestamp texts: the date first, then the
\* separator (' ' sorts before 'T'), then the time of day.
TextLess(a, b) ==
    LET da == a.t \div TicksPerDay
        db == b.t \div TicksPerDay
        fa == IF a.fmt = "sql" THEN 0 ELSE 1
        fb == IF b.fmt = "sql" THEN 0 ELSE 1
    IN  \/ da < db
        \/ da = db /\ fa < fb
        \/ da = db /\ fa = fb /\ a.t < b.t

----------------------------------------------------------------------------
(* The storage engine: evaluation of the statement text the mappers build.  *)
(* A statement is the sequence of its pieces from WHERE on; a value the     *)
(* code interpolates with an f-string contributes its own pieces verbatim.  *)

TaskColumns == {"id", "title", "description", "status", "priority", "due_date",
                "user_id", "created_at", "updated_at", "deleted_at"}

NumToks == {ToString(n) : n \in 0..(SeedTaskCount + MaxOps + 1)}
IsNumTok(v) == v \in NumToks

\* Index of the first "'" of q after position i, or 0.
RECURSIVE ClosingQuote(_, _)
ClosingQuote(q, i) ==
    IF i >= Len(q) THEN 0
    ELSE IF q[i + 1] = "'" THEN i + 1
    ELSE ClosingQuote(q, i + 1)

\* The tokenizer: a quote opens a string literal that runs to the next quote,
\* "--" starts a comment that runs to the end of the statement, an
\* unterminated literal is an error.
RECURSIVE Lex(_, _)
Lex(q, i) ==
    IF i > Len(q) THEN << >>
    ELSE IF q[i] = "--" THEN << >>
    ELSE IF q[i] = "'"
         THEN LET j == ClosingQuote(q, i)
              IN  IF j = 0 THEN << [k |-> "err"] >>
                  ELSE << [k |-> "lit", s |-> SubSeq(q, i + 1, j - 1)] >> \o Lex(q, j + 1)
         ELSE << [k |-> "tok", v |-> q[i]] >> \o Lex(q, i + 1)

IsTok(l, w) == l.k = "tok" /\ l.v = w

\* Position of the first lexeme of ls that is the keyword w, or Len(ls) + 1.
RECURSIVE FirstTok(_, _, _)
FirstTok(ls, w, i) ==
    IF i > Len(ls) THEN i
    ELSE IF IsTok(ls[i], w) THEN i
    ELSE FirstTok(ls, w, i + 1)

\* ls cut at every keyword w.
RECURSIVE SplitOn(_, _)
SplitOn(ls, w) ==
    LET p == FirstTok(ls, w, 1)
    IN  IF p > Len(ls) THEN << ls >>
        ELSE << SubSeq(ls, 1, p - 1) >> \o SplitOn(SubSeq(ls, p + 1, Len(ls)), w)

IsOperand(l) ==
    \/ l.k = "lit"
    \/ l.k = "tok" /\ (l.v \in TaskColumns \/ IsNumTok(l.v))

\* expr IS NULL | expr = expr
AtomOk(a) ==
    /\ Len(a) = 3
    /\ IsOperand(a[1])
    /\ \/ IsTok(a[2], "IS") /\ IsTok(a[3], "NULL")
       \/ IsTok(a[2], "=") /\ IsOperand(a[3])

OrderByClause == << [k |-> "tok", v |-> "ORDER"], [k |-> "tok", v |-> "BY"],
                    [k |-> "tok", v |-> "created_at"], [k |-> "tok", v |-> "DESC"] >>

\* The WHERE condition of a lexed statement and whether ORDER BY follows it.
CondOf(ls) == SubSeq(ls, 1, FirstTok(ls, "ORDER", 1) - 1)
RestOf(ls) == SubSeq(ls, FirstTok(ls, "ORDER", 1), Len(ls))

\* sqlite3 prepares the statement: OperationalError unless it parses.
StatementOk(q) ==
    LET ls == Lex(q, 1)
    IN  /\ \A i \in 1..Len(ls) : ls[i].k # "err"
        /\ RestOf(ls) \in {<< >>, OrderByClause}
        /\ LET ors == SplitOn(CondOf(ls), "OR")
           IN  \A i \in 1..Len(ors) :
                   LET ands == SplitOn(ors[i], "AND")
                   IN  \A j \in 1..Len(ands) : AtomOk(ands[j])

\* The stored value of a column as an optional text.
ColumnText(row, c) ==
    CASE c = "id" -> Some(<< ToString(row.id) >>)
      [] c = "user_id" ->
            IF IsNone(row.user_id) THEN None ELSE Some(<< ToString(Val(row.user_id)) >>)
      [] c \in {"due_date", "created_at", "updated_at", "deleted_at"} ->
            IF IsNone(row[c]) THEN None
            ELSE Some(<< Val(row[c]).fmt, ToString(Val(row[c]).t) >>)
      [] OTHER -> row[c]

OperandKind(l) ==
    IF l.k = "lit" THEN "text" ELSE IF l.v \in TaskColumns THEN "column" ELSE "number"

OperandValue(row, l) ==
    IF l.k = "lit" THEN Some(l.s)
    ELSE IF l.v \in TaskColumns THEN ColumnText(row, l.v)
    ELSE Some(<< l.v >>)

\* An atom on a row. NULL = x is NULL, which WHERE treats as false; a column
\* takes the other operand's value under its affinity, a text literal and a
\* numeric literal are never equal.
AtomHolds(row, a) ==
    IF IsTok(a[2], "IS")
    THEN IsNone(OperandValue(row, a[1]))
    ELSE /\ ~IsNone(OperandValue(row, a[1]))
         /\ ~IsNone(OperandValue(row, a[3]))
         /\ {OperandKind(a[1]), OperandKind(a[3])} # {"text", "number"}
         /\ OperandValue(row, a[1]) = OperandValue(row, a[3])

\* The WHERE condition of a statement: AND binds tighter than OR, so it is a
\* disjunction of conjunctions of atoms.
Conds(q) ==
    LET ors == SplitOn(CondOf(Lex(q, 1)), "OR")
    IN  [i \in 1..Len(ors) |-> SplitOn(ors[i], "AND")]

WhereHolds(row, conds) ==
    \E i \in 1..Len(conds) : \A j \in 1..Len(conds[i]) : AtomHolds(row, conds[i][j])

HasOrderBy(q) == RestOf(Lex(q, 1)) = OrderByClause

\* The rows of table that satisfy the statement, in rowid order.
SelectWhere(table, q) ==
    LET conds == Conds(q)
    IN  SelectSeq(table, LAMBDA row : WhereHolds(row, conds))

\* ORDER BY created_at DESC: NULLs last, rows with equal keys in rowid order.
CreatedBefore(r1, r2) ==
    \/ IsNone(r1.created_at) /\ ~IsNone(r2.created_at)
    \/ /\ ~IsNone(r1.created_at) /\ ~IsNone(r2.created_at)
       /\ TextLess(Val(r1.created_at), Val(r2.created_at))

\* r put into a sequence sorted by created_at DESC, after the rows it ties with
RECURSIVE InsertDesc(_, _)
InsertDesc(sorted, r) ==
    IF sorted = << >> THEN << r >>
    ELSE IF CreatedBefore(Head(sorted), r) THEN << r >> \o sorted
    ELSE << Head(sorted) >> \o InsertDesc(Tail(sorted), r)

RECURSIVE OrderByCreatedDesc(_)
OrderByCreatedDesc(rows) ==
    IF rows = << >> THEN << >>
    ELSE InsertDesc(OrderByCreatedDesc(SubSeq(rows, 1, Len(rows) - 1)), rows[Len(rows)])

\* cursor.execute(query); cursor.fetchall()
FetchAll(table, q) ==
    IF HasOrderBy(q) THEN OrderByCreatedDesc(SelectWhere(table, q))
    ELSE SelectWhere(table, q)

----------------------------------------------------------------------------
(* Schema bootstrap: the rows init_db seeds (db.py). Seed timestamps are    *)
(* written by SQLite, in its own format; the due dates are literals of the  *)
(* same format, numbered here in calendar order.                            *)

SeedTask(id, title, description, status, priority, due, user_id) ==
    [id |-> id, title |-> Some(title), description |-> Some(description),
     status |-> Some(<< status >>), priority |-> Some(<< priority >>),
     due_date |-> Some(sql_datetime(due)), user_id |-> user_id,
     created_at |-> Some(sql_datetime(0)), updated_at |-> Some(sql_datetime(0)),
     deleted_at |-> None]

SeedTasks ==
    << SeedTask(1, << "Fix login bug" >>, << "Users cannot login" >>,
                "in_progress", "high", 3, Some(1)),
       SeedTask(2, << "Update documentation" >>, << "Add API examples" >>,
                "pending", "medium", 5, Some(2)),
       SeedTask(3, << "Review Q4 report" >>, << "Financial review" >>,
                "completed", "high", 2, Some(1)),
       SeedTask(4, << "Design new homepage" >>, << "Mockups" >>,
                "pending", "low", 6, Some(3)),
       SeedTask(5, << "Setup CI/CD pipeline" >>, << "Configure GitHub Actions" >>,
                "pending", "high", 1, Some(2)),
       SeedTask(6, << "Refactor user service" >>, << "Clean up legacy code" >>,
                "pending", "medium", 4, None) >>

SeedUser(id, username, email, first_name, last_name) ==
    [id |-> id, username |-> Some(username), email |-> Some(email),
     password_hash |-> Some(<< "abc123", ":", "5e884898da28" >>),
     first_name |-> Some(first_name), last_name |-> Some(last_name), is_active |-> Some(1),
     created_at |-> Some(sql_datetime(0)), updated_at |-> Some(sql_datetime(0)),
     last_login |-> None, api_key |-> None]

SeedUsers ==
    << SeedUser(1, << "john", "_", "doe" >>, << "john", "@", "example.com" >>,
                << "John" >>, << "Doe" >>),
       SeedUser(2, << "jane", "_", "smith" >>, << "jane", "@", "example.com" >>,
                << "Jane" >>, << "Smith" >>),
       SeedUser(3, << "bob", "_", "johnson" >>, << "bob", "@", "example.com" >>,
                << "Bob" >>, << "Johnson" >>) >>

----------------------------------------------------------------------------
(* Entity mapper and record repository: Task (models/task.py)               *)

\* Task(): every default of __init__, created_at read from the clock
NewTask(t) ==
    [id |-> None, title |-> Some(<< >>), description |-> Some(<< >>),
     status |-> Some(<< "pending" >>), priority |-> Some(<< "medium" >>),
     due_date |-> None, user_id |-> None, created_at |-> Some([dt |-> t]),
     updated_at |-> None, deleted_at |-> None]

\* A due_date held by an entity is a datetime [dt |-> tick] or, when it came
\* from a JSON body, a string [js |-> pieces]. Python truthiness of it:
TruthyDue(o) == o # None /\ (IsDatetime(Val(o)) \/ Val(o).js # << >>)

\* Task._from_row, called at clock t
Task_from_row(row, t) ==
    [id |-> Some(row.id), title |-> row.title, description |-> row.description,
     status |-> row.status, priority |-> row.priority,
     due_date |-> IF IsNone(row.due_date) THEN None
                  ELSE Some(fromisoformat(Val(row.due_date))),
     user_id |-> row.user_id,
     created_at |-> IF IsNone(row.created_at) THEN Some([dt |-> t])
                    ELSE Some(fromisoformat(Val(row.created_at))),
     updated_at |-> IF IsNone(row.updated_at) THEN None
                    ELSE Some(fromisoformat(Val(row.updated_at))),
     deleted_at |-> IF IsNone(row.deleted_at) THEN None
                    ELSE Some(fromisoformat(Val(row.deleted_at)))]

\* self.due_date.isoformat() if self.due_date else None
DueDateParam(e) == IF TruthyDue(e.due_date) THEN Some(isoformat(Val(e.due_date))) ELSE None

\* The exception Task.save raises on entity e, "" when it raises none: the
\* parameter tuple is built first (a str has no isoformat), then the statement
\* runs against title TEXT NOT NULL.
TaskSaveError(e) ==
    IF TruthyDue(e.due_date) /\ ~IsDatetime(Val(e.due_date)) THEN "AttributeError"
    ELSE IF IsNone(e.title) THEN "IntegrityError"
    ELSE ""

\* INSERT INTO tasks ... ; the id is the AUTOINCREMENT successor
TaskInsert(table, e, t) ==
    Append(table,
           [id |-> Len(table) + 1, title |-> e.title, description |-> e.description,
            status |-> e.status, priority |-> e.priority,
            due_date |-> DueDateParam(e), user_id |-> e.user_id,
            created_at |-> Some(isoformat(Val(e.created_at))),
            updated_at |-> Some(isoformat([dt |-> t])),
            deleted_at |-> None])

\* UPDATE tasks SET title=?, ... updated_at=? WHERE id=?
TaskUpdate_stmt(table, e, t) ==
    [i \in DOMAIN table |->
        IF table[i].id = Val(e.id)
        THEN [table[i] EXCEPT !.title = e.title, !.description = e.description,
                              !.status = e.status, !.priority = e.priority,
                              !.due_date = DueDateParam(e), !.user_id = e.user_id,
                              !.updated_at = Some(isoformat([dt |-> t]))]
        ELSE table[i]]

\* Task.save: the table after it, when it raises nothing
Task_save(table, e, t) ==
    IF TruthyInt(e.id) THEN TaskUpdate_stmt(table, e, t) ELSE TaskInsert(table, e, t)

\* The entity after save(): the insert branch sets self.id
Task_saved(table, e) ==
    IF TruthyInt(e.id) THEN e ELSE [e EXCEPT !.id = Some(Len(table) + 1)]

\* The lookup without its deleted_at condition
FindByIdQuery_any(task_id) ==
    << "id", "=", ToString(task_id) >>

\* f"SELECT * FROM tasks WHERE id = {task_id} AND deleted_at IS NULL"
FindByIdQuery(task_id) ==
    << "id", "=", ToString(task_id), "AND", "deleted_at", "IS", "NULL" >>

\* Task.find_by_id: the optional row fetchone() yields
Task_find_by_id(table, task_id) ==
    LET rows == FetchAll(table, FindByIdQuery(task_id))
    IN  IF rows = << >> THEN None ELSE Some(rows[1])

\* The statement Task.find_all builds from its (optional string) arguments
FindAllQuery(user_id, status) ==
    << "deleted_at", "IS", "NULL" >>
    \o (IF TruthyStr(user_id) THEN << "AND", "user_id", "=" >> \o Val(user_id) ELSE << >>)
    \o (IF TruthyStr(status)
        THEN << "AND", "status", "=", "'" >> \o Val(status) \o << "'" >> ELSE << >>)
    \o << "ORDER", "BY", "created_at", "DESC" >>

\* Task.find_all: the rows fetchall() yields
Task_find_all(table, user_id, status) == FetchAll(table, FindAllQuery(user_id, status))

\* UPDATE tasks SET deleted_at = '<now>' WHERE id = <self.id>
Task_delete(table, e, t) ==
    [i \in DOMAIN table |->
        IF table[i].id = Val(e.id)
        THEN [table[i] EXCEPT !.deleted_at = Some(isoformat([dt |-> t]))]
        ELSE table[i]]

\* Task.to_dict
Task_to_dict(e) ==
    [id |-> e.id, title |-> e.title, description |-> e.description,
     status |-> e.status, priority |-> e.priority,
     due_date |-> DueDateParam(e), user_id |-> e.user_id,
     created_at |-> IF IsNone(e.created_at) THEN None
                    ELSE Some(isoformat(Val(e.created_at))),
     updated_at |-> IF IsNone(e.updated_at) THEN None
                    ELSE Some(isoformat(Val(e.updated_at)))]

TaskStatuses == {<< "pending" >>, << "in_progress" >>, << "completed" >>, << "cancelled" >>}
TaskPriorities == {<< "low" >>, << "medium" >>, << "high" >>, << "urgent" >>}

\* Task.validate at clock t: the list of error strings, for an entity whose
\* title is a string and whose due_date is None or a datetime
Task_validate(e, t) ==
    (IF Val(e.title) = << >> \/ Len(Strip(Val(e.title))) = 0
     THEN << "Title is required" >> ELSE << >>)
    \o (IF Len(Val(e.title)) > MaxTitleLen
        THEN << "Title must be less than 200 characters" >> ELSE << >>)
    \o (IF e.status \notin {Some(x) : x \in TaskStatuses}
        THEN << "Invalid status" >> ELSE << >>)
    \o (IF e.priority \notin {Some(x) : x \in TaskPriorities}
        THEN << "Invalid priority" >> ELSE << >>)
    \o (IF TruthyDue(e.due_date) /\ Val(e.due_date).dt < t
        THEN << "Due date cannot be in the past" >> ELSE << >>)

\* The entities validate() is defined on (it raises TypeError on the others)
Validatable(e) ==
    /\ ~IsNone(e.title)
    /\ (IsNone(e.due_date) \/ IsDatetime(Val(e.due_date)))

----------------------------------------------------------------------------
(* Storage connections. Every mapper method starts with sqlite3.connect and *)
(* ends with conn.close(), with no try/finally around the statements in     *)
(* between: a call that raises after connect never reaches close().         *)

NoConns == [opened |-> 0, closed |-> 0]

\* one call that connects; completes tells whether it reached conn.close()
ConnCall(completes) == [opened |-> 1, closed |-> IF completes THEN 1 ELSE 0]

\* the connections of two calls made one after the other
ConnThen(a, b) == [opened |-> a.opened + b.opened, closed |-> a.closed + b.closed]

\* Task.save: connect (31), parameters and statement (54-91), close (94)
Task_save_conns(e) == ConnCall(TaskSaveError(e) = "")

\* Task.find_all: connect (114), execute(query) (127), close (129)
Task_find_all_conns(user_id, status) == ConnCall(StatementOk(FindAllQuery(user_id, status)))

\* Task.find_by_id: connect (99), execute (102), close (106); the id is an int
Task_find_by_id_conns == ConnCall(TRUE)

\* Task.delete: connect (151), execute (154), close (161)
Task_delete_conns == ConnCall(TRUE)

----------------------------------------------------------------------------
(* Application service and routes: tasks (services/task_service.py,         *)
(* routes/tasks.py). A request body is a function from the field names it   *)
(* holds to optional values (JSON null is None).                            *)

Field(p, f, default) == IF f \in DOMAIN p THEN p[f] ELSE default

\* TaskCreate(**data): title is the one required argument
TaskCreateOk(p) == "title" \in DOMAIN p

\* create_task, lines 35-41: the entity handed to save()
CreateEntity(p, t) ==
    [NewTask(t) EXCEPT !.title = p.title,
                       !.description = Field(p, "description", None),
                       !.status = Field(p, "status", Some(<< "pending" >>)),
                       !.priority = Field(p, "priority", Some(<< "medium" >>)),
                       !.due_date = Field(p, "due_date", None),
                       !.user_id = Field(p, "user_id", None)]

UpdatableFields == {"title", "description", "status", "priority", "due_date", "user_id"}

\* The fields of a payload update_task applies: present and not None
Named(p) == {f \in UpdatableFields : f \in DOMAIN p /\ ~IsNone(p[f])}

\* update_task, lines 58-69: the entity handed to save()
UpdateEntity(existing, p) ==
    [f \in DOMAIN existing |-> IF f \in Named(p) THEN p[f] ELSE existing[f]]

\* The values requests carry in the model
JsonDate == [js |-> << "2026-12-01T10:00:00" >>]
LongTitle == [i \in 1..(MaxTitleLen + 1) |-> "x"]

CreatePayloads ==
    { [title |-> Some(<< "Write spec" >>), priority |-> Some(<< "high" >>)],
      [title |-> Some(<< "Plan" >>), description |-> Some(<< "d" >>),
       status |-> Some(<< "completed" >>), priority |-> Some(<< "low" >>),
       due_date |-> Some([dt |-> MaxTime]), user_id |-> Some(2)],
      [title |-> Some(<< "Write spec" >>), due_date |-> Some(JsonDate)],
      [title |-> Some(<< >>)],
      [title |-> Some(LongTitle), status |-> Some(<< "bogus" >>)],
      [description |-> Some(<< "d" >>)] }

UpdatePayloads ==
    { [status |-> Some(<< "completed" >>)],
      [title |-> Some(<< "Renamed" >>), description |-> None],
      [due_date |-> Some(JsonDate)],
      [priority |-> Some(<< "bogus" >>), user_id |-> Some(3)] }

\* The query-string values of GET /tasks (request.args.get: None when absent)
InjectOr == << "x", "'", "OR", "'", "1", "'", "=", "'", "1" >>
InjectComment == << "x", "'", "OR", "1", "=", "1", "--" >>

InjectId == << "1", "OR", "1", "=", "1" >>

\* <<assigned_to, status>> pairs
FilterArgs ==
    { << None, None >>, << None, Some(<< "pending" >>) >>, << Some(<< "1" >>), None >>,
      << Some(<< "2" >>), Some(<< "pending" >>) >>, << None, Some(<< >>) >>,
      << None, Some(<< "it", "'", "s" >>) >>, << None, Some(InjectOr) >>,
      << Some(<< "1" >>), Some(InjectComment) >>, << Some(InjectId), None >> }

\* The ids requests name: every row and one id past the table for a read; the
\* first and the last seeded row, the last row and one id past the table for
\* an update or a delete
ReqIds == 1..(Len(tasks) + 1)
MutIds == {1, SeedTaskCount, Len(tasks), Len(tasks) + 1}

NoResponse == [op |-> "none", kind |-> "ok"]

\* The threads of the server that serve update_task side by side
Updaters == {"a", "b"}

\* A thread that holds no request
Idle == [pc |-> "idle"]

TaskInit ==
    /\ tasks = SeedTasks
    /\ updating = [r \in Updaters |-> Idle]
    /\ now = 0
    /\ built = None
    /\ response = NoResponse
    /\ ops = 0

\* time passes between requests
Tick ==
    /\ now < MaxTime
    /\ now' = now + 1
    /\ UNCHANGED <<tasks, built, response, ops, conns>>
    /\ UNCHANGED <<updating, nonTaskVars>>

\* GET /tasks -> task_service.get_tasks(filters)
GetTasks ==
    \E f \in FilterArgs :
        LET assigned_to == f[1]
            status == f[2]
            q == FindAllQuery(assigned_to, status)
        IN  /\ response' =
                  IF StatementOk(q)
                  THEN LET rows == Task_find_all(tasks, assigned_to, status)
                       IN  [op |-> "get_tasks", status |-> status,
                            assigned_to |-> assigned_to, kind |-> "ok",
                            body |-> [i \in 1..Len(rows) |->
                                         Task_to_dict(Task_from_row(rows[i], now))]]
                  ELSE [op |-> "get_tasks", status |-> status,
                        assigned_to |-> assigned_to, kind |-> "error",
                        exc |-> "OperationalError"]
            /\ conns' = Task_find_all_conns(assigned_to, status)
            /\ built' = None
            /\ UNCHANGED <<tasks, now, ops>>
            /\ UNCHANGED <<updating, nonTaskVars>>

\* GET /tasks/<id> -> task_service.get_task(int(task_id))
GetTask ==
    \E task_id \in ReqIds :
        LET found == Task_find_by_id(tasks, task_id)
        IN  /\ response' =
                  [op |-> "get_task", id |-> task_id, kind |-> "ok",
                   body |-> IF IsNone(found) THEN None
                            ELSE Some(Task_to_dict(Task_from_row(Val(found), now)))]
            /\ conns' = Task_find_by_id_conns
            /\ built' = None
            /\ UNCHANGED <<tasks, now, ops>>
            /\ UNCHANGED <<updating, nonTaskVars>>

\* POST /tasks -> task_service.create_task(request.json)
CreateTask ==
    /\ ops < MaxOps
    /\ ops' = ops + 1
    /\ UNCHANGED <<updating, nonTaskVars>>
    /\ \E p \in CreatePayloads, t \in now..MaxTime :
        IF ~TaskCreateOk(p)
        THEN /\ response' = [op |-> "create_task", payload |-> p, kind |-> "error",
                             exc |-> "TypeError"]
             /\ built' = None
             /\ conns' = NoConns
             /\ UNCHANGED <<tasks, now>>
        ELSE LET e == CreateEntity(p, now)
             IN  /\ built' = Some(e)
                 /\ conns' = Task_save_conns(e)
                 /\ IF TaskSaveError(e) # ""
                    THEN /\ response' = [op |-> "create_task", payload |-> p,
                                         kind |-> "error", exc |-> TaskSaveError(e)]
                         /\ UNCHANGED <<tasks, now>>
                    ELSE /\ tasks' = Task_save(tasks, e, t)
                         /\ now' = t
                         /\ response' = [op |-> "create_task", payload |-> p,
                                         kind |-> "ok",
                                         body |-> Task_to_dict(Task_saved(tasks, e))]

\* PUT /tasks/<id> -> task_service.update_task(int(task_id), request.json)
UpdateTask ==
    /\ ops < MaxOps
    /\ ops' = ops + 1
    /\ UNCHANGED <<updating, nonTaskVars>>
    /\ \E task_id \in MutIds, p \in UpdatePayloads, t \in now..MaxTime :
        LET found == Task_find_by_id(tasks, task_id)
        IN  IF IsNone(found)
            THEN /\ response' = [op |-> "update_task", id |-> task_id, payload |-> p,
                                 kind |-> "ok", body |-> None]
                 /\ built' = None
                 /\ conns' = Task_find_by_id_conns
                 /\ UNCHANGED <<tasks, now>>
            ELSE LET e == UpdateEntity(Task_from_row(Val(found), now), p)
                 IN  /\ built' = Some(e)
                     /\ conns' = ConnThen(Task_find_by_id_conns, Task_save_conns(e))
                     /\ IF TaskSaveError(e) # ""
                        THEN /\ response' = [op |-> "update_task", id |-> task_id,
                                             payload |-> p, kind |-> "error",
                                             exc |-> TaskSaveError(e)]
                             /\ UNCHANGED <<tasks, now>>
                        ELSE /\ tasks' = Task_save(tasks, e, t)
                             /\ now' = t
                             /\ response' = [op |-> "update_task", id |-> task_id,
                                             payload |-> p, kind |-> "ok",
                                             body |-> Some(Task_to_dict(e))]

\* DELETE /tasks/<id> -> task_service.delete_task(int(task_id))
DeleteTask ==
    /\ ops < MaxOps
    /\ ops' = ops + 1
    /\ UNCHANGED <<updating, nonTaskVars>>
    /\ \E task_id \in MutIds, t \in now..MaxTime :
        LET found == Task_find_by_id(tasks, task_id)
        IN  IF IsNone(found)
            THEN /\ response' = [op |-> "delete_task", id |-> task_id, kind |-> "ok",
                                 body |-> FALSE]
                 /\ built' = None
                 /\ conns' = Task_find_by_id_conns
                 /\ UNCHANGED <<tasks, now>>
            ELSE /\ built' = Some(Task_from_row(Val(found), now))
                 /\ conns' = ConnThen(Task_find_by_id_conns, Task_delete_conns)
                 /\ tasks' = Task_delete(tasks, Task_from_row(Val(found), now), t)
                 /\ now' = t
                 /\ response' = [op |-> "delete_task", id |-> task_id, kind |-> "ok",
                                 body |-> TRUE]

UserIdle == users = SeedUsers /\ inflight = << >> /\ uresponse = NoResponse
ConnIdle == conns = NoConns
PwIdle == pw_user = << >> /\ pw_plain = << >> /\ pw_check = << >>

Init == TaskInit /\ UserIdle /\ PwIdle /\ ConnIdle

Next ==
    \/ Tick
    \/ GetTasks
    \/ GetTask
    \/ CreateTask
    \/ UpdateTask
    \/ DeleteTask

Spec == Init /\ [][Next]_vars

----------------------------------------------------------------------------
(* Properties of the task service                                           *)

IsDeleted(id) == ~IsNone(tasks[id].deleted_at)

\* C1: no task whose deleted_at is set is returned by get_task / find_by_id or
\* by get_tasks / find_all, whatever id or filter values the client supplies.
C1_DeletedNeverReturned ==
    /\ (response.op = "get_tasks" /\ response.kind = "ok")
          => \A i \in 1..Len(response.body) : ~IsDeleted(Val(response.body[i].id))
    /\ (response.op = "get_task" /\ ~IsNone(response.body))
          => ~IsDeleted(Val(Val(response.body).id))

OtherColumns == TaskColumns \ {"deleted_at"}

\* C2: delete_task on an existing non-deleted task keeps the row, sets its
\* deleted_at, leaves its other columns and every other row unchanged, and the
\* task is in no later find_all result.
C2_SoftDelete ==
    [][ /\ (response'.op = "delete_task" /\ response'.body)
              => /\ Len(tasks') = Len(tasks)
                 /\ \A i \in 1..Len(tasks) :
                        IF i = response'.id
                        THEN /\ ~IsNone(tasks'[i].deleted_at)
                             /\ \A c \in OtherColumns : tasks'[i][c] = tasks[i][c]
                        ELSE tasks'[i] = tasks[i]
        /\ (response'.op = "get_tasks" /\ response'.kind = "ok")
              => \A i \in 1..Len(response'.body) :
                     IsNone(tasks'[Val(response'.body[i].id)].deleted_at)
      ]_vars

\* C3: update_task changes in the stored row only the fields present and
\* non-null in the payload, plus updated_at; every other column of the row,
\* and every other row, keeps its stored value.
C3_UpdateFrame ==
    [][ response'.op = "update_task"
          => /\ Len(tasks') = Len(tasks)
             /\ \A i \in 1..Len(tasks) :
                    \A c \in TaskColumns :
                        (i # response'.id \/ c \notin Named(response'.payload) \cup {"updated_at"})
                            => tasks'[i][c] = tasks[i][c]
      ]_vars

\* C4: create_task with a payload that has a title persists a row, and
\* find_by_id on the assigned id right afterwards returns a task with the
\* submitted title, description, status, priority, due_date and user_id
\* (defaults where omitted) and a non-null created_at.
C4_CreateThenFind ==
    (response.op = "create_task" /\ "title" \in DOMAIN response.payload)
        => /\ response.kind = "ok"
           /\ LET p == response.payload
                  found == Task_find_by_id(tasks, Val(response.body.id))
              IN  /\ ~IsNone(found)
                  /\ LET e == Task_from_row(Val(found), now)
                     IN  /\ e.title = p.title
                         /\ e.description = Field(p, "description", None)
                         /\ e.status = Field(p, "status", Some(<< "pending" >>))
                         /\ e.priority = Field(p, "priority", Some(<< "medium" >>))
                         /\ e.due_date = Field(p, "due_date", None)
                         /\ e.user_id = Field(p, "user_id", None)
                         /\ ~IsNone(Val(found).created_at)

\* C8: when the entity create_task or update_task built makes validate()
\* return a non-empty list, no row is inserted or modified.
C8_ValidationBlocksPersistence ==
    [][ ( /\ response'.op \in {"create_task", "update_task"}
          /\ ~IsNone(built')
          /\ Validatable(Val(built'))
          /\ Task_validate(Val(built'), now) # << >> )
          => tasks' = tasks
      ]_vars

\* The rows get_tasks is to return for its filters: not deleted, status equal
\* to the status filter and user_id equal to the assigned_to filter, each when
\* the filter is given.
Matches(row, assigned_to, status) ==
    /\ IsNone(row.deleted_at)
    /\ TruthyStr(status) => row.status = status
    /\ TruthyStr(assigned_to)
          => /\ ~IsNone(row.user_id)
             /\ << ToString(Val(row.user_id)) >> = Val(assigned_to)

\* C10: get_tasks returns exactly the non-deleted tasks that match the given
\* filters, most recently created first.
C10_ListExact ==
    (response.op = "get_tasks" /\ response.kind = "ok")
        => /\ \A i \in 1..Len(tasks) :
                  Matches(tasks[i], response.assigned_to, response.status)
                      <=> \E j \in 1..Len(response.body) : Val(response.body[j].id) = i
           /\ \A j, k \in 1..Len(response.body) :
                  j < k => Val(response.body[j].created_at).t >= Val(response.body[k].created_at).t

----------------------------------------------------------------------------
(* Credential helper (models/user.py). SHA-256 is taken to be free of       *)
(* collisions: the digest of a string is modelled by the hexadecimal        *)
(* encoding of its characters, which is injective and never holds ':'.      *)

HexOf(c) ==
    CASE c = "a" -> "61" [] c = "b" -> "62" [] c = ":" -> "3a"
      [] c = "0" -> "30" [] c = "f" -> "66" [] OTHER -> "3f"

\* hashlib.sha256(s.encode()).hexdigest()
Sha256Hex(s) == [i \in 1..Len(s) |-> HexOf(s[i])]

\* secrets.token_hex(16): the salts the model draws
Salts == {<< "0", "f" >>, << "f", "0" >>}

\* The password_hash set_password stores for a plaintext and a drawn salt
set_password(password, salt) == salt \o << ":" >> \o Sha256Hex(password \o salt)

\* Index of the first ":" of s from position i on, or 0
RECURSIVE FirstColon(_, _)
FirstColon(s, i) ==
    IF i > Len(s) THEN 0 ELSE IF s[i] = ":" THEN i ELSE FirstColon(s, i + 1)

\* A plausible slip: the candidate is hashed without the stored salt
check_password_unsalted(password_hash, password) ==
    IF password_hash = << >> \/ ~Contains(password_hash, ":") THEN FALSE
    ELSE LET k == FirstColon(password_hash, 1)
         IN  Sha256Hex(password) = SubSeq(password_hash, k + 1, Len(password_hash))

\* User.check_password
check_password(password_hash, password) ==
    IF password_hash = << >> \/ ~Contains(password_hash, ":") THEN FALSE
    ELSE LET k == FirstColon(password_hash, 1)
             salt == SubSeq(password_hash, 1, k - 1)
             stored_hash == SubSeq(password_hash, k + 1, Len(password_hash))
         IN  Sha256Hex(password \o salt) = stored_hash

\* Plaintexts: every string over {a, :} of at most MaxPwLen characters
RECURSIVE StringsUpTo(_)
StringsUpTo(n) ==
    IF n = 0 THEN {<< >>}
    ELSE LET shorter == StringsUpTo(n - 1)
         IN  shorter \cup {Append(w, c) : w \in shorter, c \in {"a", ":"}}

Passwords == StringsUpTo(MaxPwLen)

\* The password_hash of the seeded users: 'abc123:5e88...'
SeedHash == << "abc123", ":", "5e884898da28" >>

\* Stored values a User can be loaded with (User._from_row, User())
StoredHashes == {<< >>, << "5e884898da28" >>, SeedHash, << ":" >>}

\* user.set_password(p)
SetPassword ==
    /\ \E p \in Passwords, salt \in Salts :
          /\ pw_user' = set_password(p, salt)
          /\ pw_plain' = Some(p)
    /\ pw_check' = None
    /\ UNCHANGED <<taskVars, userVars, conns>>

\* a User built from a stored row
LoadUser ==
    /\ \E h \in StoredHashes : pw_user' = h
    /\ pw_plain' = None
    /\ pw_check' = None
    /\ UNCHANGED <<taskVars, userVars, conns>>

\* user.check_password(q)
CheckPassword ==
    /\ \E q \in Passwords :
          pw_check' = Some([candidate |-> q, result |-> check_password(pw_user, q)])
    /\ UNCHANGED <<pw_user, pw_plain>>
    /\ UNCHANGED <<taskVars, userVars, conns>>

NextPw ==
    \/ SetPassword
    \/ LoadUser
    \/ CheckPassword

SpecPw == Init /\ [][NextPw]_vars

\* C7: after set_password(p), check_password(q) is true exactly when q = p;
\* and check_password is false for every candidate when password_hash is
\* empty or holds no ':'.
C7_CheckPassword ==
    ~IsNone(pw_check) =>
        /\ ~IsNone(pw_plain) => (Val(pw_check).result <=> Val(pw_check).candidate = Val(pw_plain))
        /\ (pw_user = << >> \/ ~Contains(pw_user, ":")) => ~Val(pw_check).result

\* C7 witness: set_password on a plaintext that holds a ':', then
\* check_password on the same plaintext answers true
C7_Witness ==
    /\ ~IsNone(pw_check) /\ ~IsNone(pw_plain)
    /\ Val(pw_check).result
    /\ Contains(Val(pw_plain), ":")

----------------------------------------------------------------------------
(* Entity mapper and record repository: User (models/user.py)               *)

\* User(): every default of __init__, created_at read from the clock
NewUser(t) ==
    [id |-> None, username |-> Some(<< >>), email |-> Some(<< >>),
     password_hash |-> Some(<< >>), first_name |-> Some(<< >>),
     last_name |-> Some(<< >>), is_active |-> TRUE, created_at |-> Some([dt |-> t]),
     updated_at |-> None, last_login |-> None, api_key |-> None]

\* User._from_row, called at clock t
User_from_row(row, t) ==
    [id |-> Some(row.id), username |-> row.username, email |-> row.email,
     password_hash |-> row.password_hash, first_name |-> row.first_name,
     last_name |-> row.last_name,
     is_active |-> ~IsNone(row.is_active) /\ Val(row.is_active) # 0,
     created_at |-> IF IsNone(row.created_at) THEN Some([dt |-> t])
                    ELSE Some(fromisoformat(Val(row.created_at))),
     updated_at |-> IF IsNone(row.updated_at) THEN None
                    ELSE Some(fromisoformat(Val(row.updated_at))),
     last_login |-> IF IsNone(row.last_login) THEN None
                    ELSE Some(fromisoformat(Val(row.last_login))),
     api_key |-> row.api_key]

\* A plausible slip: the representation also carries the stored hash
User_to_dict_with_hash(e) ==
    [id |-> e.id, username |-> e.username, email |-> e.email,
     password_hash |-> e.password_hash,
     first_name |-> e.first_name, last_name |-> e.last_name, is_active |-> e.is_active,
     created_at |-> IF IsNone(e.created_at) THEN None
                    ELSE Some(isoformat(Val(e.created_at))),
     updated_at |-> IF IsNone(e.updated_at) THEN None
                    ELSE Some(isoformat(Val(e.updated_at))),
     last_login |-> IF IsNone(e.last_login) THEN None
                    ELSE Some(isoformat(Val(e.last_login)))]

\* User.to_dict
User_to_dict(e) ==
    [id |-> e.id, username |-> e.username, email |-> e.email,
     first_name |-> e.first_name, last_name |-> e.last_name, is_active |-> e.is_active,
     created_at |-> IF IsNone(e.created_at) THEN None
                    ELSE Some(isoformat(Val(e.created_at))),
     updated_at |-> IF IsNone(e.updated_at) THEN None
                    ELSE Some(isoformat(Val(e.updated_at))),
     last_login |-> IF IsNone(e.last_login) THEN None
                    ELSE Some(isoformat(Val(e.last_login)))]

\* A plausible slip: the schema declares only username UNIQUE
UniqueViolation_username_only(table, e) ==
    \E i \in 1..Len(table) : ~IsNone(e.username) /\ table[i].username = e.username

\* username TEXT UNIQUE NOT NULL, email TEXT UNIQUE NOT NULL: whether the
\* INSERT of e meets a row with its username or its email (NULLs never clash)
UniqueViolation(table, e) ==
    \E i \in 1..Len(table) :
        \/ ~IsNone(e.username) /\ table[i].username = e.username
        \/ ~IsNone(e.email) /\ table[i].email = e.email

\* The exception the INSERT of User.save raises on entity e, "" when none
UserSaveError(table, e) ==
    IF IsNone(e.username) \/ IsNone(e.email) \/ IsNone(e.password_hash)
       \/ UniqueViolation(table, e)
    THEN "IntegrityError" ELSE ""

\* User.save: connect (32), the INSERT (78), close (99)
User_save_conns(table, e) == ConnCall(UserSaveError(table, e) = "")

\* get_users and User.find_by_id: connect, a fixed SELECT, close
User_select_conns == ConnCall(TRUE)

\* INSERT INTO users ...
UserInsert(table, e, t) ==
    Append(table,
           [id |-> Len(table) + 1, username |-> e.username, email |-> e.email,
            password_hash |-> e.password_hash, first_name |-> e.first_name,
            last_name |-> e.last_name, is_active |-> Some(IF e.is_active THEN 1 ELSE 0),
            created_at |-> Some(isoformat(Val(e.created_at))),
            updated_at |-> Some(isoformat([dt |-> t])),
            last_login |-> None, api_key |-> e.api_key])

----------------------------------------------------------------------------
(* Application service and routes: users (services/user_service.py,         *)
(* routes/users.py)                                                         *)

\* UserCreate(**data): username, email and password are required
UserCreateOk(p) == {"username", "email", "password"} \subseteq DOMAIN p

\* create_user, lines 36-44: the entity handed to save(); a password that
\* is None cannot be concatenated with the salt (TypeError)
UserEntity(p, salt, t) ==
    [NewUser(t) EXCEPT !.username = p.username, !.email = p.email,
                       !.first_name = Field(p, "first_name", Some(<< >>)),
                       !.last_name = Field(p, "last_name", Some(<< >>)),
                       !.is_active = TRUE,
                       !.password_hash = Some(set_password(Val(p.password), salt))]

\* What the users routes make of an exception the service raises: they catch
\* none, so every one of them ends the request as an unhandled failure
RouteOutcome(exc) == [kind |-> "error", exc |-> exc, outcome |-> "unhandled"]

UserPayloads ==
    { [username |-> Some(<< "a", "b", "a" >>), email |-> Some(<< "a", "@", "b" >>),
       password |-> Some(<< "a", ":" >>)],
      [username |-> Some(<< "a", "b", "a" >>), email |-> Some(<< "b", "@", "b" >>),
       password |-> Some(<< "a" >>), first_name |-> Some(<< "A" >>)],
      [username |-> Some(<< "a", "b" >>), email |-> Some(<< "a", "@", "b" >>),
       password |-> Some(<< >>)],
      [username |-> Some(<< "john", "_", "doe" >>), email |-> Some(<< "a", "b" >>),
       password |-> Some(<< "a" >>)],
      [username |-> None, email |-> Some(<< "c", "@", "b" >>),
       password |-> Some(<< "a" >>)],
      [username |-> Some(<< "a", "b", "a" >>), email |-> Some(<< "c", "@", "b" >>)] }

\* GET /users -> user_service.get_users()
GetUsers ==
    /\ uresponse' = [op |-> "get_users", kind |-> "ok",
                     body |-> [i \in 1..Len(users) |->
                                  User_to_dict(User_from_row(users[i], now))]]
    /\ conns' = User_select_conns
    /\ UNCHANGED <<users, inflight, taskVars, pwVars>>

\* SELECT * FROM users WHERE id = <int>; fetchone()
User_find_by_id(table, user_id) ==
    LET rows == SelectSeq(table, LAMBDA row : row.id = user_id)
    IN  IF rows = << >> THEN None ELSE Some(rows[1])

\* GET /users/<id> -> user_service.get_user(int(user_id))
GetUser ==
    /\ \E user_id \in 1..(Len(users) + 1) :
          LET found == User_find_by_id(users, user_id)
          IN  uresponse' = [op |-> "get_user", id |-> user_id, kind |-> "ok",
                            body |-> IF IsNone(found) THEN None
                                     ELSE Some(User_to_dict(User_from_row(Val(found), now)))]
    /\ conns' = User_select_conns
    /\ UNCHANGED <<users, inflight, taskVars, pwVars>>

\* The create_user requests served so far or under way
UserReqs == (Len(users) - SeedUserCount) + Len(inflight)

\* POST /users -> create_user up to new_user.set_password(): the request now
\* holds an entity and has not yet touched storage
CreateUserBuild ==
    /\ UserReqs < MaxUserReqs
    /\ \E p \in UserPayloads, salt \in Salts :
          IF ~UserCreateOk(p) \/ IsNone(p.password)
          THEN /\ uresponse' = [op |-> "create_user", payload |-> p, began |-> Len(users)]
                               @@ RouteOutcome("TypeError")
               /\ conns' = NoConns
               /\ UNCHANGED inflight
          ELSE /\ inflight' = Append(inflight, [payload |-> p, began |-> Len(users),
                                                entity |-> UserEntity(p, salt, now)])
               /\ UNCHANGED <<uresponse, conns>>
    /\ UNCHANGED <<users, taskVars, pwVars>>

\* create_user from new_user.save() on: the one INSERT, then to_dict
CreateUserSave ==
    /\ \E k \in 1..Len(inflight) :
          LET r == inflight[k]
              e == r.entity
          IN  /\ inflight' = [j \in 1..(Len(inflight) - 1) |->
                                 IF j < k THEN inflight[j] ELSE inflight[j + 1]]
              /\ conns' = User_save_conns(users, e)
              /\ IF UserSaveError(users, e) # ""
                 THEN /\ uresponse' = [op |-> "create_user", payload |-> r.payload,
                                       began |-> r.began]
                                      @@ RouteOutcome(UserSaveError(users, e))
                      /\ UNCHANGED users
                 ELSE /\ users' = UserInsert(users, e, now)
                      /\ uresponse' = [op |-> "create_user", payload |-> r.payload,
                                       began |-> r.began, kind |-> "ok", outcome |-> "ok",
                                       body |-> User_to_dict([e EXCEPT !.id = Some(Len(users) + 1)])]
    /\ UNCHANGED <<taskVars, pwVars>>

\* The user handlers only copy the clock into created_at and updated_at, so
\* this specification leaves it where Init puts it.
NextUsers ==
    \/ GetUsers
    \/ GetUser
    \/ CreateUserBuild
    \/ CreateUserSave

SpecUsers == Init /\ [][NextUsers]_vars

----------------------------------------------------------------------------
(* Properties of the user service                                           *)

UniqueUsers(table) ==
    \A i, j \in 1..Len(table) :
        i # j => /\ table[i].username # table[j].username
                 /\ table[i].email # table[j].email

\* Whether a row of table holds the username or the email of payload p
Duplicates(table, p) ==
    \E i \in 1..Len(table) :
        \/ ~IsNone(p.username) /\ table[i].username = p.username
        \/ ~IsNone(p.email) /\ table[i].email = p.email

\* C5: in every reachable state no two rows of users share a username or an
\* email, and a create_user whose username or email is that of an existing
\* row adds no row, whatever the interleaving of the requests.
C5_UniqueUsers ==
    [][ /\ UniqueUsers(users')
        /\ (uresponse'.op = "create_user" /\ Duplicates(users, uresponse'.payload))
              => users' = users
      ]_vars

\* C5 witness: a create_user lost the race: the row it clashes with was
\* inserted after the request had built its entity
C5_Witness ==
    /\ uresponse.op = "create_user"
    /\ uresponse.kind = "error"
    /\ uresponse.exc = "IntegrityError"
    /\ \E i \in (uresponse.began + 1)..Len(users) :
          \/ users[i].username = uresponse.payload.username
          \/ users[i].email = uresponse.payload.email

\* C6: a create_user that duplicates an existing username or email ends in
\* a Conflict outcome of its own, not in an unhandled failure.
C6_ConflictOutcome ==
    ( /\ uresponse.op = "create_user"
      /\ uresponse.kind = "error"
      /\ uresponse.exc = "IntegrityError"
      /\ Duplicates(users, uresponse.payload) )
        => uresponse.outcome = "conflict"

\* The dictionaries a user response carries
ReturnedUsers ==
    CASE uresponse.op = "get_users" -> {uresponse.body[i] : i \in 1..Len(uresponse.body)}
      [] uresponse.op = "get_user" /\ ~IsNone(uresponse.body) -> {Val(uresponse.body)}
      [] uresponse.op = "create_user" /\ uresponse.kind = "ok" -> {uresponse.body}
      [] OTHER -> {}

\* C9: no dictionary returned by create_user, get_user or get_users has a
\* password_hash or password entry, and none of its text entries is the
\* stored password_hash of a user.
C9_NoSecretReturned ==
    \A d \in ReturnedUsers :
        /\ DOMAIN d \cap {"password_hash", "password"} = {}
        /\ \A f \in DOMAIN d \cap {"username", "email", "first_name", "last_name", "password_hash"} :
               \A i \in 1..Len(users) : d[f] # users[i].password_hash

\* C9 witness: create_user answered for a user stored with a salted hash of
\* a non-empty plaintext
C9_Witness ==
    /\ uresponse.op = "create_user"
    /\ uresponse.kind = "ok"
    /\ Val(uresponse.payload.password) # << >>
    /\ Contains(Val(users[Val(uresponse.body.id)].password_hash), ":")

----------------------------------------------------------------------------
(* The mutating task requests on their own: create_task, update_task and    *)
(* delete_task as the clock advances. The read handlers change no table.    *)

NextWrites ==
    \/ Tick
    \/ CreateTask
    \/ UpdateTask
    \/ DeleteTask

SpecWrites == Init /\ [][NextWrites]_vars

\* A row with this id exists and is not soft-deleted
LiveTask(table, task_id) ==
    \E i \in 1..Len(table) : table[i].id = task_id /\ IsNone(table[i].deleted_at)

\* C11: when no non-deleted task has the given id (never created, or already
\* soft-deleted), update_task returns None and delete_task returns False, and
\* every row of the tasks table is left unchanged.
C11_AbsentIsNoOp ==
    [][ ( /\ ops' = ops + 1
          /\ response'.op \in {"update_task", "delete_task"}
          /\ ~LiveTask(tasks, response'.id) )
          => /\ response'.kind = "ok"
             /\ response'.op = "update_task" => response'.body = None
             /\ response'.op = "delete_task" => response'.body = FALSE
             /\ tasks' = tasks
      ]_vars

\* update_task has answered None for the id of a row that is stored and
\* soft-deleted
C11_Witness ==
    /\ response.op = "update_task"
    /\ response.kind = "ok"
    /\ response.body = None
    /\ response.id <= Len(tasks)
    /\ IsDeleted(response.id)

----------------------------------------------------------------------------
(* Storage connections of a request                                         *)

\* C12: every storage connection opened while handling a request is closed by
\* the time that request ends, on every path, including requests that end in
\* a failure (a failing parameter conversion or statement in Task.save, a
\* failing query in a find_* lookup, a unique-constraint violation in
\* User.save).
C12_ConnectionsClosed == conns.closed = conns.opened

----------------------------------------------------------------------------
(* update_task served by concurrent threads (app.run serves each request in *)
(* its own thread). A request is two steps: the lookup, which leaves the    *)
(* thread with its own Task object, and save(), which writes every column   *)
(* of that object back.                                                     *)

\* The ids concurrent update requests name: two seeded rows and an absent one
UpdIds == {1, 2, SeedTaskCount + 1}

\* update_task up to existing.save(): TaskUpdate(**data), Task.find_by_id and
\* the assignments of lines 58-69
UpdateFind ==
    /\ ops < MaxOps
    /\ ops' = ops + 1
    /\ \E r \in Updaters, task_id \in UpdIds, p \in UpdatePayloads :
          /\ updating[r].pc = "idle"
          /\ LET found == Task_find_by_id(tasks, task_id)
             IN  IF IsNone(found)
                 THEN /\ updating' = [updating EXCEPT ![r] =
                                         [pc |-> "done", id |-> task_id, payload |-> p,
                                          kind |-> "ok", body |-> None]]
                      /\ response' = [op |-> "update_task", id |-> task_id,
                                      payload |-> p, kind |-> "ok", body |-> None]
                      /\ built' = None
                      /\ conns' = Task_find_by_id_conns
                 ELSE /\ updating' = [updating EXCEPT ![r] =
                                         [pc |-> "found", id |-> task_id, payload |-> p,
                                          entity |-> UpdateEntity(Task_from_row(Val(found), now), p)]]
                      /\ UNCHANGED <<response, built, conns>>
    /\ UNCHANGED <<tasks, now>>
    /\ UNCHANGED nonTaskVars

\* update_task from existing.save() on: the UPDATE of every column, to_dict
UpdateSave ==
    /\ \E r \in Updaters :
          /\ updating[r].pc = "found"
          /\ LET u == updating[r]
                 e == u.entity
             IN  /\ built' = Some(e)
                 /\ conns' = ConnThen(Task_find_by_id_conns, Task_save_conns(e))
                 /\ IF TaskSaveError(e) # ""
                    THEN /\ updating' = [updating EXCEPT ![r] =
                                            [pc |-> "done", id |-> u.id, payload |-> u.payload,
                                             kind |-> "error", exc |-> TaskSaveError(e)]]
                         /\ response' = [op |-> "update_task", id |-> u.id,
                                         payload |-> u.payload, kind |-> "error",
                                         exc |-> TaskSaveError(e)]
                         /\ UNCHANGED tasks
                    ELSE /\ tasks' = Task_save(tasks, e, now)
                         /\ updating' = [updating EXCEPT ![r] =
                                            [pc |-> "done", id |-> u.id, payload |-> u.payload,
                                             kind |-> "ok", body |-> Some(Task_to_dict(e))]]
                         /\ response' = [op |-> "update_task", id |-> u.id,
                                         payload |-> u.payload, kind |-> "ok",
                                         body |-> Some(Task_to_dict(e))]
    /\ UNCHANGED <<now, ops>>
    /\ UNCHANGED nonTaskVars

NextConcurrent ==
    \/ Tick
    \/ UpdateFind
    \/ UpdateSave

SpecConcurrent == Init /\ [][NextConcurrent]_vars

\* The column value save() stores for a field value of the entity
StoredAs(f, v) == IF f = "due_date" THEN DueDateParam([due_date |-> v]) ELSE v

\* The request of thread r has finished and its save() went through
Updated(r) ==
    /\ updating[r].pc = "done"
    /\ updating[r].kind = "ok"
    /\ ~IsNone(updating[r].body)

\* C13: in every interleaving of two update_task requests on the same task
\* whose payloads name disjoint fields, once both have finished the stored
\* row holds both requests' values.
C13_NoLostUpdate ==
    \A r1, r2 \in Updaters :
        ( /\ r1 # r2
          /\ Updated(r1)
          /\ Updated(r2)
          /\ updating[r1].id = updating[r2].id
          /\ Named(updating[r1].payload) \cap Named(updating[r2].payload) = {} )
          => \A f \in Named(updating[r1].payload) :
                 tasks[updating[r1].id][f] = StoredAs(f, updating[r1].payload[f])

----------------------------------------------------------------------------
(* What a write returns against what is stored                              *)

\* get_task(task_id) on the table as it stands: the representation or None
GetTaskBody(task_id) ==
    LET found == Task_find_by_id(tasks, task_id)
    IN  IF IsNone(found) THEN None
        ELSE Some(Task_to_dict(Task_from_row(Val(found), now)))

\* C14: the representation returned by create_task or update_task equals,
\* field for field (updated_at included), the representation get_task returns
\* for the same id immediately afterwards with no request in between.
C14_ResponseIsStoredRow ==
    /\ (response.op = "create_task" /\ response.kind = "ok")
          => Some(response.body) = GetTaskBody(Val(response.body.id))
    /\ (response.op = "update_task" /\ response.kind = "ok" /\ ~IsNone(response.body))
          => response.body = GetTaskBody(response.id)

====
